---- MODULE Spec2Model ----
(***************************************************************************)
(* State-machine model of the Storj datastore adapter (storj.go): the key  *)
(* codec, the single-object operations Put/Get/Has/GetSize/Delete/Sync,    *)
(* Query with its lazy result iterator, and the batch accumulator with its *)
(* sequential Commit.                                                      *)
(*                                                                         *)
(* Strings are sequences of one-character strings, so that TrimPrefix and  *)
(* concatenation are computed and not assumed.  The remote bucket is the   *)
(* variable store, a partial map from storage key to payload.  Every remote call   *)
(* may fail; the failure is an input of the action (a fault record).       *)
(***************************************************************************)
EXTENDS Integers, Sequences, FiniteSets, TLC

\* ------------------------------------------------------------ bounds
MaxKeyLen == 4     \* longest key string the codec is checked on
MaxValLen == 1     \* longest payload

\* ------------------------------------------------------------ strings
Sep   == "/"
Chars == {Sep, "a", "b"}
Bytes == {1}     \* payloads are told apart by their length

RECURSIVE SeqsUpTo(_, _)
SeqsUpTo(S, n) ==
  IF n = 0 THEN {<<>>}
  ELSE LET shorter == SeqsUpTo(S, n - 1)
       IN  shorter \cup {Append(s, c) : s \in {t \in shorter : Len(t) = n - 1}, c \in S}

Strings == SeqsUpTo(Chars, MaxKeyLen)
Values  == SeqsUpTo(Bytes, MaxValLen)

HasPrefix(s, p) == Len(p) <= Len(s) /\ SubSeq(s, 1, Len(p)) = p

\* strings.TrimPrefix: s without the leading p, or s itself
TrimPrefix(s, p) == IF HasPrefix(s, p) THEN SubSeq(s, Len(p) + 1, Len(s)) ELSE s

\* path.Clean on a rooted path without "." elements: runs of separators
\* collapse to one and a trailing separator is dropped (the root stays "/").
RECURSIVE PathClean(_)
PathClean(s) ==
  IF Len(s) <= 1 THEN s
  ELSE IF s[1] = Sep /\ s[2] = Sep THEN PathClean(Tail(s))
  ELSE IF Len(s) = 2 /\ s[2] = Sep THEN <<s[1]>>
  ELSE <<s[1]>> \o PathClean(Tail(s))

\* ds.NewKey: the key of a string, cleaned and rooted
NewKey(s) ==
  IF Len(s) = 0 THEN <<Sep>>
  ELSE IF s[1] = Sep THEN PathClean(s)
  ELSE PathClean(<<Sep>> \o s)

\* The canonical datastore keys: the strings NewKey leaves alone.
CanonicalKeys == {s \in Strings : NewKey(s) = s}

\* storjKey: the storage key of a datastore key
storjKeyKeepsSep(ipfsKey) == ipfsKey
\* (A storage key made of the key's last name alone.)
storjKeyLastName(ipfsKey) ==
  LET seps == {i \in 1..Len(ipfsKey) : ipfsKey[i] = Sep}
      from == IF seps = {} THEN 0 ELSE CHOOSE i \in seps : \A j \in seps : j <= i
  IN  SubSeq(ipfsKey, from + 1, Len(ipfsKey))
storjKey(ipfsKey) == TrimPrefix(ipfsKey, <<Sep>>)

\* The keys the datastore is exercised on: "/a", "/a/b", "/b".
Keys == {<<Sep, "a">>, <<Sep, "a", Sep, "b">>, <<Sep, "b">>}
StorKeys == {storjKey(k) : k \in Keys}

\* ------------------------------------------------------------ errors
Nil               == "nil"
ErrObjectNotFound == "uplink.ErrObjectNotFound"
ErrNotFound       == "ds.ErrNotFound"
ErrUnsupported    == "storjds: filters or orders are not supported"
BackendErrs       == {"backend: timeout", "backend: permission denied"}

\* (First, an isNotFound that takes every error for the not-found error.)
isNotFoundAnyError(err) == err # Nil
isNotFound(err) == err = ErrObjectNotFound

\* A nil []byte, written as a sequence that no payload equals.
NilBytes == <<-1>>

\* A fault: the remote call of the operation that fails, the error it
\* fails with and, for a read, the bytes delivered before the failure.
NoFault == [stage |-> "none", err |-> Nil, n |-> 0]
FaultsAt(stages) == {[stage |-> s, err |-> e, n |-> 0] : s \in stages, e \in BackendErrs}
ReadFaults == {[stage |-> "read", err |-> e, n |-> n] : e \in BackendErrs, n \in 0..MaxValLen}

VARIABLES store, last, lastPut, batch, commit, query
vars == <<store, last, lastPut, batch, commit, query>>

\* ------------------------------------------------------------ remote calls
\* What the operations of the uplink project answer on the bucket st.  Each
\* takes the fault injected into the operation and fails when the fault
\* names its stage.

\* Project.DownloadObject: the payload stream of an object
DownloadObject(st, sk, fault) ==
  IF fault.stage = "open" THEN [err |-> fault.err, data |-> <<>>]
  ELSE IF sk \notin DOMAIN st THEN [err |-> ErrObjectNotFound, data |-> <<>>]
  ELSE [err |-> Nil, data |-> st[sk]]

\* ioutil.ReadAll: the bytes read until EOF or an error, and that error
ReadAll(data, fault) ==
  IF fault.stage = "read"
  THEN [val |-> SubSeq(data, 1, IF fault.n < Len(data) THEN fault.n ELSE Len(data)),
        err |-> fault.err]
  ELSE [val |-> data, err |-> Nil]

\* Project.StatObject: the metadata of an object
StatObject(st, sk, fault) ==
  IF fault.stage = "stat" THEN [err |-> fault.err, ContentLength |-> 0]
  ELSE IF sk \notin DOMAIN st THEN [err |-> ErrObjectNotFound, ContentLength |-> 0]
  ELSE [err |-> Nil, ContentLength |-> Len(st[sk])]

\* Project.DeleteObject: removes an object; a missing one is ErrObjectNotFound
DeleteObject(st, sk, fault) ==
  IF fault.stage = "delete" THEN [err |-> fault.err, store |-> st]
  ELSE IF sk \notin DOMAIN st THEN [err |-> ErrObjectNotFound, store |-> st]
  ELSE [err |-> Nil, store |-> [x \in DOMAIN st \ {sk} |-> st[x]]]

\* ------------------------------------------------------------ handlers
\* Each handler is an operator from the bucket and its inputs to what it
\* returns, the bucket it leaves and the remote calls it issued.

\* Put that leaves an object already stored as it is
PutKeepsExisting(st, key, value, fault) ==
  LET sk == storjKey(key) IN
  IF fault.stage # "none"
  THEN [store |-> st, err |-> fault.err, calls |-> <<"UploadObject">>]
  ELSE [store |-> IF sk \in DOMAIN st THEN st ELSE (sk :> value) @@ st, err |-> Nil,
        calls |-> <<"UploadObject", "Write", "Commit">>]

Put(st, key, value, fault) ==
  LET sk == storjKey(key) IN
  IF fault.stage = "open"
  THEN [store |-> st, err |-> fault.err, calls |-> <<"UploadObject">>]
  ELSE IF fault.stage = "write"
  THEN [store |-> st, err |-> fault.err, calls |-> <<"UploadObject", "Write">>]
  ELSE IF fault.stage = "commit"
  THEN [store |-> st, err |-> fault.err, calls |-> <<"UploadObject", "Write", "Commit">>]
  ELSE [store |-> (sk :> value) @@ st, err |-> Nil,
        calls |-> <<"UploadObject", "Write", "Commit">>]

Sync(prefix) == Nil

Get(st, key, fault) ==
  LET download == DownloadObject(st, storjKey(key), fault) IN
  IF download.err # Nil
  THEN IF isNotFound(download.err)
       THEN [val |-> NilBytes, err |-> ErrNotFound, calls |-> <<"DownloadObject">>,
             object |-> storjKey(key)]
       ELSE [val |-> NilBytes, err |-> download.err, calls |-> <<"DownloadObject">>,
             object |-> storjKey(key)]
  ELSE LET read == ReadAll(download.data, fault)
       IN  [val |-> read.val, err |-> read.err, calls |-> <<"DownloadObject", "Read">>,
            object |-> storjKey(key)]

\* Has that reports a missing object as the not-found error, as Get does
HasReportsMissing(st, key, fault) ==
  LET stat == StatObject(st, storjKey(key), fault) IN
  IF stat.err # Nil
  THEN [exists |-> FALSE, err |-> IF isNotFound(stat.err) THEN ErrNotFound ELSE stat.err,
        calls |-> <<"StatObject">>]
  ELSE [exists |-> TRUE, err |-> Nil, calls |-> <<"StatObject">>]

Has(st, key, fault) ==
  LET stat == StatObject(st, storjKey(key), fault) IN
  IF stat.err # Nil
  THEN IF isNotFound(stat.err)
       THEN [exists |-> FALSE, err |-> Nil, calls |-> <<"StatObject">>]
       ELSE [exists |-> FALSE, err |-> stat.err, calls |-> <<"StatObject">>]
  ELSE [exists |-> TRUE, err |-> Nil, calls |-> <<"StatObject">>]

\* GetSize that hands back the backend's own error for a missing object
GetSizeRawError(st, key, fault) ==
  LET obj == StatObject(st, storjKey(key), fault) IN
  IF obj.err # Nil
  THEN [size |-> -1, err |-> obj.err, calls |-> <<"StatObject">>]
  ELSE [size |-> obj.ContentLength, err |-> Nil, calls |-> <<"StatObject">>]

GetSize(st, key, fault) ==
  LET obj == StatObject(st, storjKey(key), fault) IN
  IF obj.err # Nil
  THEN IF isNotFound(obj.err)
       THEN [size |-> -1, err |-> ErrNotFound, calls |-> <<"StatObject">>]
       ELSE [size |-> -1, err |-> obj.err, calls |-> <<"StatObject">>]
  ELSE [size |-> obj.ContentLength, err |-> Nil, calls |-> <<"StatObject">>]

\* Delete that does not swallow the backend's not-found error
DeleteReportsMissing(st, key, fault) ==
  LET del == DeleteObject(st, storjKey(key), fault) IN
  [store |-> del.store, err |-> del.err, calls |-> <<"DeleteObject">>]

\* (A Delete that returns as Delete does and leaves the object.)
DeleteKeepsObject(st, key, fault) ==
  LET del == DeleteObject(st, storjKey(key), fault) IN
  [store |-> st,
   err   |-> IF isNotFound(del.err) THEN Nil ELSE del.err,
   calls |-> <<"DeleteObject">>]

\* (A Delete that also removes every object stored under the key.)
DeleteRemovesSubtree(st, key, fault) ==
  LET del == DeleteObject(st, storjKey(key), fault) IN
  [store |-> [x \in {y \in DOMAIN del.store : ~HasPrefix(y, storjKey(key) \o <<Sep>>)} |->
                del.store[x]],
   err   |-> IF isNotFound(del.err) THEN Nil ELSE del.err,
   calls |-> <<"DeleteObject">>]

Delete(st, key, fault) ==
  LET del == DeleteObject(st, storjKey(key), fault) IN
  [store |-> del.store,
   err   |-> IF isNotFound(del.err) THEN Nil ELSE del.err,
   calls |-> <<"DeleteObject">>]

\* ------------------------------------------------------------ query
\* A dsq.Query: Prefix, KeysOnly, Orders, Filters, Offset, Limit.  Orders and
\* Filters are slices: nil, empty but not nil, or holding something.
NilSlice   == "nil"
Slices     == {NilSlice, "empty", "set"}
Prefixes   == {<<>>, <<Sep, "a">>, <<"a">>}
NoQ == [Prefix |-> <<>>, KeysOnly |-> FALSE, Orders |-> NilSlice, Filters |-> NilSlice,
        Offset |-> 0, Limit |-> 0]
\* The queries made: every prefix with and without values; the empty prefix
\* with an offset, a limit or both; and one prefix with every ordering and
\* filter.
Queries    ==
  {[NoQ EXCEPT !.Prefix = p, !.KeysOnly = k] : p \in Prefixes, k \in BOOLEAN}
  \cup {[NoQ EXCEPT !.KeysOnly = k, !.Offset = o, !.Limit = l] :
          k \in BOOLEAN, o \in {0, 1}, l \in {0, 1}}
  \cup {[NoQ EXCEPT !.Prefix = <<Sep, "a">>, !.Orders = o, !.Filters = f] :
          o \in Slices, f \in Slices}

\* Project.ListObjects with Recursive and System set: a cursor over the
\* objects whose key begins with prefix, each with its content length.  The
\* cursor holds the objects found when it was made.
ListObjects(st, prefix, fault) ==
  IF fault.stage = "list" THEN [err |-> fault.err, items |-> {}]
  ELSE [err |-> Nil,
        items |-> {[Key |-> sk, ContentLength |-> Len(st[sk])] :
                     sk \in {x \in DOMAIN st : HasPrefix(x, prefix)}}]

\* StorjDS.Query up to the construction of the iterator: the error it
\* returns, the cursor it holds and the remote calls it made
QueryKeepsPrefix(st, q, fault) ==
  IF q.Orders # NilSlice \/ q.Filters # NilSlice
  THEN [err |-> ErrUnsupported, items |-> {}, calls |-> <<>>]
  ELSE LET list == ListObjects(st, q.Prefix, fault) IN
       IF list.err # Nil
       THEN [err |-> list.err, items |-> {}, calls |-> <<"ListObjects">>]
       ELSE [err |-> Nil, items |-> list.items, calls |-> <<"ListObjects">>]
QueryChecksOrdersOnly(st, q, fault) ==
  IF q.Orders # NilSlice
  THEN [err |-> ErrUnsupported, items |-> {}, calls |-> <<>>]
  ELSE LET list == ListObjects(st, TrimPrefix(q.Prefix, <<Sep>>), fault) IN
       IF list.err # Nil
       THEN [err |-> list.err, items |-> {}, calls |-> <<"ListObjects">>]
       ELSE [err |-> Nil, items |-> list.items, calls |-> <<"ListObjects">>]
\* (A Query that stops its listing at the limit asked for.)
QueryAppliesLimit(st, q, fault) ==
  IF q.Orders # NilSlice \/ q.Filters # NilSlice
  THEN [err |-> ErrUnsupported, items |-> {}, calls |-> <<>>]
  ELSE LET list == ListObjects(st, TrimPrefix(q.Prefix, <<Sep>>), fault) IN
       IF list.err # Nil
       THEN [err |-> list.err, items |-> {}, calls |-> <<"ListObjects">>]
       ELSE [err |-> Nil, calls |-> <<"ListObjects">>,
             items |-> IF q.Limit > 0 /\ Cardinality(list.items) > q.Limit
                       THEN CHOOSE cut \in SUBSET list.items : Cardinality(cut) = q.Limit
                       ELSE list.items]
Query(st, q, fault) ==
  IF q.Orders # NilSlice \/ q.Filters # NilSlice
  THEN [err |-> ErrUnsupported, items |-> {}, calls |-> <<>>]
  ELSE LET list == ListObjects(st, TrimPrefix(q.Prefix, <<Sep>>), fault) IN
       IF list.err # Nil
       THEN [err |-> list.err, items |-> {}, calls |-> <<"ListObjects">>]
       ELSE [err |-> Nil, items |-> list.items, calls |-> <<"ListObjects">>]

\* The key of the entry made for a listed item: "/" + list.Item().Key
entryKey(itemKey) == <<Sep>> \o itemKey

NoEntry == [Key |-> <<>>, Value |-> NilBytes, Size |-> 0]

\* The iterator's Next: items is what the cursor has left, item the one
\* list.Next() moves to (any of them: the listing order is the backend's).
\* Returns the dsq.Result (entry, error), the bool, and the cursor left.
IteratorNext(st, q, items, item, fault) ==
  IF fault.stage = "next"
  THEN [entry |-> NoEntry, err |-> fault.err, more |-> FALSE, items |-> items,
        calls |-> <<"list.Next">>, listed |-> <<>>, object |-> <<>>]
  ELSE IF items = {}
  THEN [entry |-> NoEntry, err |-> Nil, more |-> FALSE, items |-> items,
        calls |-> <<"list.Next">>, listed |-> <<>>, object |-> <<>>]
  ELSE LET entry == [Key |-> entryKey(item.Key), Value |-> NilBytes,
                     Size |-> item.ContentLength]
           left  == items \ {item}
       IN  IF ~q.KeysOnly
           THEN LET got == Get(st, NewKey(entry.Key), fault) IN
                IF got.err # Nil
                THEN [entry |-> NoEntry, err |-> got.err, more |-> FALSE, items |-> left,
                      calls |-> <<"list.Next">> \o got.calls,
                      listed |-> item.Key, object |-> got.object]
                ELSE [entry |-> [entry EXCEPT !.Value = got.val], err |-> Nil,
                      more |-> TRUE, items |-> left,
                      calls |-> <<"list.Next">> \o got.calls,
                      listed |-> item.Key, object |-> got.object]
           ELSE [entry |-> entry, err |-> Nil, more |-> TRUE, items |-> left,
                 calls |-> <<"list.Next">>, listed |-> item.Key, object |-> <<>>]

\* dsq.ResultsFromIterator hands the iterator to the consumer as dsq.Results.
\* The bool Next returns says whether its result is one of the sequence:
\* NextSync passes the pair on as it is, while Rest and the channel of Next
\* stop at false without looking at the result.  The error the consumer
\* receives, by the method it reads the results with:
Consumers == {"NextSync", "Rest"}
ResultsFromIterator(via, err, more) ==
  IF more \/ via = "NextSync" THEN err ELSE Nil

\* ------------------------------------------------------------ state
\* store    the bucket: storage key -> payload, for the objects that exist
\* last     the most recent call of a datastore or batch method that has
\*          returned (or, of a Commit under way, its entry "CommitBegin" or
\*          its latest iteration "CommitStep" with the error of that
\*          iteration's call): its arguments, what it returned, the remote calls it
\*          issued, the fault injected and the bucket it started from; for
\*          Commit also the entries it applied (done) and never reached
\*          (todo); for the iterator's Next also the error the consumer of
\*          the results receives (seen)
\* lastPut  per key, the value of the latest successful Put, when no Put or
\*          Delete of that key has succeeded since (history kept for the
\*          round-trip property)
\* batch    the storjBatch: its ops map; and as history the last call made
\*          on it per key (recorded) and whether some call on it replaced
\*          a different one recorded for its key (rewritten)
\* commit   the position of a running Commit in its loop over the ops map
\* query    the result iterator of the latest accepted Query: its descriptor
\*          q, what its cursor has left (items), the entries it returned
\*          (out) and how many (n), its position as the consumer has it
\*          (open; then ended after a clean end, failed after an error it
\*          received, or cut when the iterator failed and the consumer was
\*          handed the end of the sequence with no error), and as history
\*          whether the bucket changed since the listing (dirty) and the
\*          keys whose object was deleted since and not put again (removed)

NoCall ==
  [op |-> "none", key |-> <<>>, arg |-> NilBytes, val |-> NilBytes, size |-> 0,
   exists |-> FALSE, err |-> Nil, calls |-> <<>>, fault |-> NoFault, pre |-> <<>>,
   done |-> {}, todo |-> {}, q |-> NoQ, entry |-> NoEntry, more |-> FALSE,
   listed |-> <<>>, object |-> <<>>, seen |-> Nil]

Empty == [x \in {} |-> <<>>]

NoBatch  == [open |-> FALSE, ops |-> Empty, recorded |-> Empty, rewritten |-> FALSE]
NoCommit == [pc |-> "idle", todo |-> {}, done |-> {}]
NoQuery  == [pc |-> "closed", q |-> NoQ, items |-> {}, out |-> {}, n |-> 0, dirty |-> FALSE,
             removed |-> {}]

\* History: a call took the bucket from st to st2 while the iterator was
\* open
Touched(qs, st, st2) ==
  IF qs.pc = "open" /\ st2 # st
  THEN [qs EXCEPT !.dirty = TRUE,
                  !.removed = {key \in Keys : /\ storjKey(key) \notin DOMAIN st2
                                               /\ \/ key \in @
                                                  \/ storjKey(key) \in DOMAIN st}]
  ELSE qs


Init ==
  /\ store = Empty
  /\ last = NoCall
  /\ lastPut = Empty
  /\ batch = NoBatch
  /\ commit = NoCommit
  /\ query = NoQuery

\* History: a Put (of value) or a Delete (value is NilBytes) of key has
\* returned err.  A call the backend failed leaves the history as it is.
Track(lp, key, value, err) ==
  IF err # Nil THEN lp
  ELSE IF value = NilBytes THEN [x \in DOMAIN lp \ {key} |-> lp[x]]
  ELSE (key :> value) @@ lp

\* ------------------------------------------------------------ actions: single-object calls
PutFaults     == {NoFault} \cup FaultsAt({"open", "write", "commit"})
GetFaults     == {NoFault} \cup FaultsAt({"open"}) \cup ReadFaults
StatFaults    == {NoFault} \cup FaultsAt({"stat"})
DeleteFaults  == {NoFault} \cup FaultsAt({"delete"})

PutWith(faults) ==
  \E key \in Keys, value \in Values, fault \in faults :
    LET r == Put(store, key, value, fault) IN
    /\ store' = r.store
    /\ last' = [NoCall EXCEPT !.op = "Put", !.key = key, !.arg = value, !.err = r.err,
                              !.calls = r.calls, !.fault = fault, !.pre = store]
    /\ lastPut' = Track(lastPut, key, value, r.err)
    /\ query' = Touched(query, store, r.store)
    /\ UNCHANGED <<batch, commit>>

CallPut == PutWith(PutFaults)

GetWith(faults) ==
  \E key \in Keys, fault \in faults :
    LET r == Get(store, key, fault) IN
    /\ last' = [NoCall EXCEPT !.op = "Get", !.key = key, !.val = r.val, !.err = r.err,
                              !.calls = r.calls, !.fault = fault, !.pre = store]
    /\ UNCHANGED <<store, lastPut, batch, commit, query>>

CallGet == GetWith(GetFaults)

HasWith(faults) ==
  \E key \in Keys, fault \in faults :
    LET r == Has(store, key, fault) IN
    /\ last' = [NoCall EXCEPT !.op = "Has", !.key = key, !.exists = r.exists, !.err = r.err,
                              !.calls = r.calls, !.fault = fault, !.pre = store]
    /\ UNCHANGED <<store, lastPut, batch, commit, query>>

CallHas == HasWith(StatFaults)

GetSizeWith(faults) ==
  \E key \in Keys, fault \in faults :
    LET r == GetSize(store, key, fault) IN
    /\ last' = [NoCall EXCEPT !.op = "GetSize", !.key = key, !.size = r.size, !.err = r.err,
                              !.calls = r.calls, !.fault = fault, !.pre = store]
    /\ UNCHANGED <<store, lastPut, batch, commit, query>>

CallGetSize == GetSizeWith(StatFaults)

DeleteWith(faults) ==
  \E key \in Keys, fault \in faults :
    LET r == Delete(store, key, fault) IN
    /\ store' = r.store
    /\ last' = [NoCall EXCEPT !.op = "Delete", !.key = key, !.err = r.err,
                              !.calls = r.calls, !.fault = fault, !.pre = store]
    /\ lastPut' = Track(lastPut, key, NilBytes, r.err)
    /\ query' = Touched(query, store, r.store)
    /\ UNCHANGED <<batch, commit>>

CallDelete == DeleteWith(DeleteFaults)

CallSync ==
  \E prefix \in Keys :
    /\ last' = [NoCall EXCEPT !.op = "Sync", !.key = prefix, !.err = Sync(prefix), !.pre = store]
    /\ UNCHANGED <<store, lastPut, batch, commit, query>>

\* ------------------------------------------------------------ batch
\* batchOp: a pending operation of the ops map
batchOp(value, delete) == [value |-> value, delete |-> delete]

\* storjBatch.Put: the ops map with key's entry set to a put of value
BatchPutKeepsFirst(ops, key, value) ==
  IF key \in DOMAIN ops THEN ops ELSE (key :> batchOp(value, FALSE)) @@ ops
BatchPut(ops, key, value) == (key :> batchOp(value, FALSE)) @@ ops

\* storjBatch.Delete: the ops map with key's entry set to a delete
BatchDelete(ops, key) == (key :> batchOp(NilBytes, TRUE)) @@ ops

\* One iteration of Commit's loop, on the entry of key: the call it makes,
\* and the loop's position after it.  An error returns at once; the last
\* entry done, the loop ends and Commit returns nil.
CommitIterationGoesOn(c, st, ops, key, fault) ==
  LET r == IF ops[key].delete THEN Delete(st, key, fault)
           ELSE Put(st, key, ops[key].value, fault)
      todo == c.todo \ {key}
  IN  [store |-> r.store, err |-> r.err, calls |-> r.calls, returned |-> todo = {},
       commit |-> [pc |-> "running", todo |-> todo,
                   done |-> IF r.err = Nil THEN c.done \cup {key} ELSE c.done]]
\* (A Commit that holds its writes back and applies them all with the last
\* entry.)
CommitIterationAllAtOnce(c, st, ops, key, fault) ==
  LET todo == c.todo \ {key}
      puts == {k \in DOMAIN ops : ~ops[k].delete}
      dels == {storjKey(k) : k \in DOMAIN ops \ puts}
      all  == [sk \in (DOMAIN st \ dels) \cup {storjKey(k) : k \in puts} |->
                IF \E k \in puts : storjKey(k) = sk
                THEN ops[CHOOSE k \in puts : storjKey(k) = sk].value ELSE st[sk]]
  IN  IF fault.stage # "none"
      THEN [store |-> st, err |-> fault.err, calls |-> <<>>, returned |-> TRUE,
            commit |-> [pc |-> "running", todo |-> todo, done |-> c.done]]
      ELSE [store |-> IF todo = {} THEN all ELSE st, err |-> Nil, calls |-> <<>>,
            returned |-> todo = {},
            commit |-> [pc |-> "running", todo |-> todo, done |-> c.done \cup {key}]]
CommitIteration(c, st, ops, key, fault) ==
  LET r == IF ops[key].delete THEN Delete(st, key, fault)
           ELSE Put(st, key, ops[key].value, fault)
      todo == c.todo \ {key}
  IN  IF r.err # Nil
      THEN [store |-> r.store, err |-> r.err, calls |-> r.calls, returned |-> TRUE,
            commit |-> [pc |-> "running", todo |-> todo, done |-> c.done]]
      ELSE [store |-> r.store, err |-> Nil, calls |-> r.calls, returned |-> todo = {},
            commit |-> [pc |-> "running", todo |-> todo, done |-> c.done \cup {key}]]

\* History: a call on b has replaced a different one recorded for its key
Rewritten(b, key, op) ==
  b.rewritten \/ (key \in DOMAIN b.recorded /\ b.recorded[key] # op)

\* StorjDS.Batch: a batch with an empty ops map
CallBatch ==
  /\ commit.pc = "idle"
  /\ batch' = [open |-> TRUE, ops |-> Empty, recorded |-> Empty, rewritten |-> FALSE]
  /\ commit' = NoCommit
  /\ last' = [NoCall EXCEPT !.op = "Batch", !.pre = store]
  /\ UNCHANGED <<store, lastPut, query>>

\* (A batch Put that also writes through to the bucket.)
CallBatchPutWritesThrough ==
  \E key \in Keys, value \in Values :
    /\ batch.open /\ commit.pc = "idle"
    /\ batch' = [batch EXCEPT !.ops = BatchPut(batch.ops, key, value),
                              !.recorded = (key :> batchOp(value, FALSE)) @@ batch.recorded,
                              !.rewritten = Rewritten(batch, key, batchOp(value, FALSE))]
    /\ last' = [NoCall EXCEPT !.op = "BatchPut", !.key = key, !.arg = value, !.pre = store]
    /\ store' = Put(store, key, value, NoFault).store
    /\ UNCHANGED <<lastPut, commit, query>>

CallBatchPut ==
  \E key \in Keys, value \in Values :
    /\ batch.open /\ commit.pc = "idle"
    /\ batch' = [batch EXCEPT !.ops = BatchPut(batch.ops, key, value),
                              !.recorded = (key :> batchOp(value, FALSE)) @@ batch.recorded,
                              !.rewritten = Rewritten(batch, key, batchOp(value, FALSE))]
    /\ last' = [NoCall EXCEPT !.op = "BatchPut", !.key = key, !.arg = value, !.pre = store]
    /\ UNCHANGED <<store, lastPut, commit, query>>

CallBatchDelete ==
  \E key \in Keys :
    /\ batch.open /\ commit.pc = "idle"
    /\ batch' = [batch EXCEPT !.ops = BatchDelete(batch.ops, key),
                              !.recorded = (key :> batchOp(NilBytes, TRUE)) @@ batch.recorded,
                              !.rewritten = Rewritten(batch, key, batchOp(NilBytes, TRUE))]
    /\ last' = [NoCall EXCEPT !.op = "BatchDelete", !.key = key, !.pre = store]
    /\ UNCHANGED <<store, lastPut, commit, query>>

\* Commit is entered: the loop ranges over the ops map as it is now.  With
\* an empty map it returns nil at once.
CommitBegin ==
  /\ batch.open /\ commit.pc = "idle"
  /\ IF batch.ops = Empty
     THEN /\ commit' = NoCommit
          /\ last' = [NoCall EXCEPT !.op = "Commit"]
     ELSE /\ commit' = [pc |-> "running", todo |-> DOMAIN batch.ops, done |-> {}]
          /\ last' = [NoCall EXCEPT !.op = "CommitBegin"]
  /\ UNCHANGED <<store, lastPut, batch, query>>

\* One iteration of the loop: Go ranges over a map in no fixed order, so
\* any entry not yet visited may come next.
CommitStep ==
  \E key \in commit.todo, fault \in {NoFault} \cup FaultsAt({"commit", "delete"}) :
    LET op == batch.ops[key]
        r  == CommitIteration(commit, store, batch.ops, key, fault) IN
    /\ commit.pc = "running"
    /\ fault.stage = "none" \/ (fault.stage = "delete") = op.delete
    /\ store' = r.store
    /\ commit' = IF r.returned THEN NoCommit ELSE r.commit
    /\ lastPut' = Track(lastPut, key, op.value, r.err)
    /\ last' = IF r.returned
               THEN [NoCall EXCEPT !.op = "Commit", !.key = key, !.err = r.err,
                                   !.calls = r.calls, !.fault = fault,
                                   !.done = r.commit.done, !.todo = r.commit.todo]
               ELSE [NoCall EXCEPT !.op = "CommitStep", !.err = r.err]
    /\ query' = Touched(query, store, r.store)
    /\ UNCHANGED batch

\* ------------------------------------------------------------ actions: query
\* StorjDS.Query: rejected, failed at the listing, or an iterator is made
CallQuery ==
  \E q \in Queries, fault \in {NoFault} \cup FaultsAt({"list"}) :
    LET r == Query(store, q, fault) IN
    /\ query.pc = "closed"
    /\ last' = [NoCall EXCEPT !.op = "Query", !.q = q, !.err = r.err, !.calls = r.calls,
                              !.fault = fault, !.pre = store]
    /\ query' = IF r.err # Nil THEN query
                ELSE [pc |-> "open", q |-> q, items |-> r.items, out |-> {}, n |-> 0,
                      dirty |-> FALSE, removed |-> {}]
    /\ UNCHANGED <<store, lastPut, batch, commit>>

\* The consumer asks the open iterator for its next result.
CallNext ==
  \E fault \in {NoFault} \cup FaultsAt({"next", "open"}) \cup {f \in ReadFaults : f.n = 0} :
    \E item \in IF query.items = {} \/ fault.stage = "next"
                 THEN {[Key |-> <<>>, ContentLength |-> 0]} ELSE query.items :
     \E via \in Consumers :
      LET r    == IteratorNext(store, query.q, query.items, item, fault)
          seen == ResultsFromIterator(via, r.err, r.more) IN
      /\ query.pc = "open"
      /\ last' = [NoCall EXCEPT !.op = "Next", !.entry = r.entry, !.err = r.err,
                                !.more = r.more, !.calls = r.calls, !.fault = fault,
                                !.pre = store, !.listed = r.listed, !.object = r.object,
                                !.seen = seen]
      /\ query' = [query EXCEPT !.items = r.items,
                                !.out = IF r.more THEN @ \cup {r.entry} ELSE @,
                                !.n = IF r.more THEN @ + 1 ELSE @,
                                !.pc = IF r.more THEN "open"
                                       ELSE IF seen # Nil THEN "failed"
                                       ELSE IF r.err # Nil THEN "cut" ELSE "ended"]
      /\ UNCHANGED <<store, lastPut, batch, commit>>

\* Results.Close: the iterator's Close does nothing and returns nil; the
\* consumer is done with the results.
CallClose ==
  /\ query.pc # "closed"
  /\ query' = NoQuery
  /\ last' = [NoCall EXCEPT !.op = "Close", !.pre = store]
  /\ UNCHANGED <<store, lastPut, batch, commit>>

Next ==
  \/ CallPut
  \/ CallGet
  \/ CallHas
  \/ CallGetSize
  \/ CallDelete
  \/ CallSync

Spec == Init /\ [][Next]_vars

\* The batch and the datastore together: other callers read while a Commit
\* runs, and delete between Commits (the bucket is filled by Commits).
NextBatch ==
  \/ CallBatch
  \/ CallBatchPut
  \/ CallBatchDelete
  \/ CommitBegin
  \/ CommitStep
  \/ GetWith({NoFault})
  \/ HasWith({NoFault})
  \/ commit.pc = "idle" /\ DeleteWith({NoFault})

SpecBatch == Init /\ [][NextBatch]_vars

\* Queries and their iterator (one at a time, closed before the next), with
\* other callers writing between queries and, once, while an iterator is open.
Undisturbed == query.pc = "closed" \/ (query.pc = "open" /\ ~query.dirty)

NextQuery ==
  \/ CallQuery
  \/ CallNext
  \/ CallClose
  \/ Undisturbed /\ PutWith({NoFault})
  \/ Undisturbed /\ DeleteWith({NoFault})

SpecQuery == Init /\ [][NextQuery]_vars

\* ------------------------------------------------------------ properties
Stored(key) == storjKey(key) \in DOMAIN store

\* C1: once Put(K, V) has succeeded and no Put or Delete of K followed (or
\* only ones the backend failed), a Get(K) whose download the backend does
\* not fail returns V itself and no error, and no Get(K) at all returns
\* another value with a nil error, whatever came before the Put: the empty
\* value included, and a Put over an existing object replaces it.
C1_PutThenGet ==
  (last.op = "Get" /\ last.key \in DOMAIN lastPut) =>
    /\ last.fault = NoFault => last.err = Nil
    /\ last.err = Nil => last.val = lastPut[last.key]

\* A Get returned the empty value that the latest Put of its key stored.
C1_Witness ==
  /\ last.op = "Get" /\ last.err = Nil /\ last.val = <<>>
  /\ last.key \in DOMAIN lastPut /\ lastPut[last.key] = <<>>

\* The stored state of key in bucket st is what the pending operation op asks for.
AppliedIn(st, key, op) ==
  IF op.delete THEN storjKey(key) \notin DOMAIN st
  ELSE storjKey(key) \in DOMAIN st /\ st[storjKey(key)] = op.value

\* The stored state of key is the same in the buckets st1 and st2.
SameAt(st1, st2, key) ==
  LET sk == storjKey(key) IN
  /\ (sk \in DOMAIN st1) = (sk \in DOMAIN st2)
  /\ sk \in DOMAIN st1 => st1[sk] = st2[sk]

\* The entry a query with values owes for a stored key.
EntryOf(key) ==
  [Key |-> key, Value |-> store[storjKey(key)], Size |-> Len(store[storjKey(key)])]

\* An iterator over values has ended cleanly and the bucket did not change
\* since the listing.
DrainedUndisturbed == query.pc = "ended" /\ ~query.dirty /\ ~query.q.KeysOnly

\* A prefix as the query takes it: one that lacks the leading separator
\* counts as if it had it.
Rooted(prefix) ==
  IF prefix # <<>> /\ prefix[1] = Sep THEN prefix ELSE <<Sep>> \o prefix

\* C2 as stated: drained undisturbed, a query with prefix P and values has
\* returned one entry (key, stored value, its length) for each stored key
\* whose key string begins with P, and nothing else.
C2_EntriesByKeyPrefix ==
  DrainedUndisturbed =>
    /\ query.out = {EntryOf(key) : key \in {k \in Keys : Stored(k) /\ HasPrefix(k, query.q.Prefix)}}
    /\ query.n = Cardinality(query.out)

\* C2, amended: the same, for each stored key whose key string begins with P
\* taken with its leading separator (P itself when P has it, the separator
\* and P when it has not).
C2_EntriesByRootedPrefix ==
  DrainedUndisturbed =>
    /\ query.out =
         {EntryOf(key) : key \in {k \in Keys : Stored(k) /\ HasPrefix(k, Rooted(query.q.Prefix))}}
    /\ query.n = Cardinality(query.out)

\* The query with prefix "/a" over the three stored keys returned the two
\* entries under "/a" and left "/b" out.
C2_Witness ==
  /\ DrainedUndisturbed /\ query.q.Prefix = <<Sep, "a">>
  /\ \A key \in Keys : Stored(key)
  /\ store[<<"a">>] # store[<<"a", Sep, "b">>]
  /\ query.n = 2

\* C8: a Query that asks for an ordering or a filter returns the unsupported
\* error and no iterator, having made no remote call and left the bucket
\* alone; a Query that asks for neither is not rejected as unsupported.
C8_UnsupportedQuery ==
  last.op = "Query" =>
    /\ (last.q.Orders = "set" \/ last.q.Filters = "set") =>
         /\ last.err = ErrUnsupported
         /\ last.calls = <<>>
         /\ query.pc = "closed"
         /\ store = last.pre
    /\ (last.q.Orders = NilSlice /\ last.q.Filters = NilSlice) => last.err # ErrUnsupported

\* A Query with a filter and no ordering was rejected over a filled bucket.
C8_Witness ==
  /\ last.op = "Query" /\ last.q.Filters = "set" /\ last.q.Orders = NilSlice
  /\ last.err = ErrUnsupported /\ store # Empty

\* The codec's round trip on every canonical key up to MaxKeyLen: the entry
\* key made from the storage key is the key, also as a ds.Key.
RoundTrip ==
  \A K \in CanonicalKeys :
    entryKey(storjKey(K)) = K /\ NewKey(entryKey(storjKey(K))) = K

\* C9: storage key and back is the identity on canonical keys, and the Get
\* the iterator makes for a listed item reads the very object listed.
C9_KeyRoundTrip ==
  /\ RoundTrip
  /\ (last.op = "Next" /\ last.listed # <<>> /\ ~query.q.KeysOnly) => last.object = last.listed

\* The iterator fetched the value of the listed object "a/b".
C9_Witness ==
  /\ last.op = "Next" /\ last.more /\ last.listed = <<"a", Sep, "b">>
  /\ last.object = last.listed /\ last.entry.Key = <<Sep, "a", Sep, "b">>

\* C3: when a Commit has returned nil, the bucket holds for every key of the
\* batch what the last Put or Delete recorded for that key asks for: the
\* value of a Put, no object for a Delete.
C3_LastWriteWins ==
  (last.op = "Commit" /\ last.err = Nil) =>
    \A key \in DOMAIN batch.recorded : AppliedIn(store, key, batch.recorded[key])

\* A Commit succeeded on a batch of one key, on which a Put replaced an
\* earlier, different operation.
C3_Witness ==
  /\ last.op = "Commit" /\ last.err = Nil /\ batch.rewritten
  /\ \E key \in Keys :
       /\ DOMAIN batch.recorded = {key}
       /\ batch.recorded[key] = batchOp(<<1>>, FALSE)
       /\ store[storjKey(key)] = <<1>>

\* C4, at the return: a Commit that returns an error returns the error of
\* the call that failed, made that call once, has stopped, and the entries
\* it applied before are still applied.
C4_FailedCommit ==
  /\ last.op = "CommitStep" => last.err = Nil
  /\ (last.op = "Commit" /\ last.err # Nil) =>
       /\ last.err = last.fault.err
       /\ last.calls \in {<<"DeleteObject">>, <<"UploadObject", "Write", "Commit">>}
       /\ commit.pc = "idle"
       /\ last.key \notin last.done \cup last.todo
       /\ \A key \in last.done : AppliedIn(store, key, batch.ops[key])

\* C4, step by step: an iteration of Commit visits one entry and changes
\* the stored state of no other key, so of no entry it has not reached; the
\* iteration whose call fails changes nothing and ends the Commit.
C4_Iteration ==
  (commit.pc = "running" /\ commit' # commit) =>
    LET left == IF commit'.pc = "running" THEN commit'.todo ELSE last'.todo
        visited == commit.todo \ left
    IN  /\ Cardinality(visited) = 1
        /\ \A key \in Keys \ visited : SameAt(store, store', key)
        /\ (last'.op = "Commit" /\ last'.err # Nil) => store' = store

\* C4: when the Put or Delete of one pending operation fails, Commit stops
\* at once with that error: what was applied stays applied, what was not
\* reached is never issued and its key keeps its stored state, and the
\* failing operation is not tried again.
C4_CommitStopsAtFailure == []C4_FailedCommit /\ [][C4_Iteration]_vars

\* The second of three pending operations failed.
C4_Witness ==
  /\ last.op = "Commit" /\ last.err # Nil
  /\ Cardinality(last.done) = 1 /\ Cardinality(last.todo) = 1

\* C5: Delete(K) of a key with no stored object, when the backend does not
\* fail the call, returns nil and leaves the bucket as it was.
C5_DeleteMissing ==
  (last.op = "Delete" /\ storjKey(last.key) \notin DOMAIN last.pre /\ last.fault = NoFault) =>
    (last.err = Nil /\ store = last.pre)

\* A Delete found no object under its key while other objects were stored.
C5_Witness ==
  /\ last.op = "Delete" /\ storjKey(last.key) \notin DOMAIN last.pre
  /\ last.fault = NoFault /\ last.err = Nil /\ store # Empty

\* C6: Has(K) returns (false, nil) when nothing is stored under K and
\* (true, nil) when something is, so also right after a successful Put; it
\* never reports a missing object as an error.
C6_Has ==
  /\ last.op = "Has" =>
       /\ last.err \notin {ErrNotFound, ErrObjectNotFound}
       /\ last.fault = NoFault => (last.err = Nil /\ last.exists = Stored(last.key))
  /\ (last.op = "Put" /\ last.err = Nil) =>
       (Has(store, last.key, NoFault).exists /\ Has(store, last.key, NoFault).err = Nil)

\* Has answered (false, nil) for a missing key.
C6_Witness ==
  last.op = "Has" /\ ~Stored(last.key) /\ ~last.exists /\ last.err = Nil /\ store # Empty

\* C7: on a key with no stored object GetSize and Get return the datastore
\* not-found sentinel (not nil, not the backend's error) while Has in the
\* same state returns (false, nil); on a key holding V, GetSize returns
\* Len(V) and nil.  (Calls the backend itself fails are left aside.)
C7_NotFoundSentinel ==
  /\ (last.op \in {"Get", "GetSize"} /\ ~Stored(last.key) /\ last.fault = NoFault) =>
       /\ last.err = ErrNotFound
       /\ Has(store, last.key, NoFault).err = Nil
       /\ ~Has(store, last.key, NoFault).exists
  /\ (last.op = "GetSize" /\ Stored(last.key) /\ last.fault = NoFault) =>
       (last.err = Nil /\ last.size = Len(store[storjKey(last.key)]))

\* GetSize returned the sentinel for a missing key.
C7_Witness ==
  last.op = "GetSize" /\ ~Stored(last.key) /\ last.err = ErrNotFound /\ last.size = -1

\* C10: a Get that returns an error returns no bytes with it.
C10_NoPartialValue ==
  (last.op = "Get" /\ last.err # Nil) => last.val \in {NilBytes, <<>>}

\* C11: when the cursor fails, or the Get of the listed item fails (the
\* backend failed it, or the object is gone since the listing), the consumer
\* of the results receives that error and no entry, and has the sequence as
\* failed, not as cleanly exhausted; nothing is returned after it.
C11_ErrorEndSeen ==
  /\ last.op = "Next" =>
       LET cursorFails == last.fault.stage = "next"
           hydrates    == last.listed # <<>> /\ ~query.q.KeysOnly
           gone        == hydrates /\ last.listed \notin DOMAIN store
           getFails    == hydrates /\ last.fault.stage \in {"open", "read"}
       IN  (cursorFails \/ gone \/ getFails) =>
             /\ last.err # Nil /\ last.seen = last.err
             /\ ~last.more /\ last.entry = NoEntry
             /\ query.pc = "failed"
  /\ query.pc = "failed" => (last.op = "Next" /\ last.seen # Nil /\ ~last.more)

\* C12: while a Commit runs, the entries its loop has done are applied in
\* the bucket before it returns, and a Get or Has of another caller made in
\* between answers from the bucket as it is then: the done entries applied,
\* the others as they were.
C12_CommitNotAtomic ==
  commit.pc = "running" =>
    /\ \A key \in commit.done : AppliedIn(store, key, batch.ops[key])
    /\ last.op = "Has" => (last.err = Nil /\ last.exists = Stored(last.key))
    /\ last.op = "Get" =>
         IF Stored(last.key)
         THEN last.err = Nil /\ last.val = store[storjKey(last.key)]
         ELSE last.err = ErrNotFound

\* In the middle of a Commit of two Puts, a Get returned the value the one
\* already done had put, while the object of the other was not there yet.
C12_Witness ==
  /\ commit.pc = "running" /\ last.op = "Get" /\ last.err = Nil
  /\ commit.done = {last.key} /\ batch.ops[last.key] = batchOp(last.val, FALSE)
  /\ DOMAIN store = {storjKey(last.key)}
  /\ \E other \in commit.todo : ~batch.ops[other].delete /\ ~Stored(other)

\* C13: a batch Put or a batch Delete returns nil, issues no remote call
\* and leaves the bucket as it was, so every Get, Has, GetSize and Query
\* answers after it as it would have before it.
C13_BatchOnlyRecords ==
  last.op \in {"BatchPut", "BatchDelete"} =>
    /\ last.err = Nil /\ last.calls = <<>>
    /\ store = last.pre
    /\ last.key \in DOMAIN batch.ops
    /\ \A key \in Keys :
         /\ Get(store, key, NoFault) = Get(last.pre, key, NoFault)
         /\ Has(store, key, NoFault) = Has(last.pre, key, NoFault)
         /\ GetSize(store, key, NoFault) = GetSize(last.pre, key, NoFault)
    /\ \A q \in Queries : Query(store, q, NoFault) = Query(last.pre, q, NoFault)

\* A Put was recorded in a batch for a key with no object, other objects
\* being stored, and the key still has no object.
C13_Witness ==
  /\ last.op = "BatchPut" /\ last.arg = <<1>> /\ batch.ops[last.key] = batchOp(<<1>>, FALSE)
  /\ ~Stored(last.key) /\ store # Empty

\* C14: once a Commit has returned, with nil or with an error, the batch
\* holds no pending operation (so that a further Commit of it would have
\* nothing to issue).
C14_BatchDiscarded ==
  last.op = "Commit" => batch.ops = Empty

\* The entries a query owes over the bucket as it is, whatever offset and
\* limit it asks for: one for each stored key under its prefix, with the
\* stored value unless it asks for keys only.
Matching(q) ==
  {[Key   |-> key,
    Value |-> IF q.KeysOnly THEN NilBytes ELSE store[storjKey(key)],
    Size  |-> Len(store[storjKey(key)])] :
     key \in {k \in Keys : Stored(k) /\ HasPrefix(k, Rooted(q.Prefix))}}

\* C15: drained undisturbed, a query that asks for an offset, a limit or
\* both has returned what the same query without them returns: an entry for
\* every matching stored key, none skipped and none held back.
C15_OffsetLimitIgnored ==
  (query.pc = "ended" /\ ~query.dirty) =>
    /\ query.out = Matching([query.q EXCEPT !.Offset = 0, !.Limit = 0])
    /\ query.n = Cardinality(query.out)

\* A query for everything with offset 1 and limit 1 returned all three keys.
C15_Witness ==
  /\ query.pc = "ended" /\ ~query.dirty
  /\ query.q.Offset = 1 /\ query.q.Limit = 1 /\ query.q.Prefix = <<>>
  /\ query.n = 3 /\ {e.Key : e \in query.out} = Keys

\* C16: Get, Has, GetSize, Put and Delete issue each of their remote calls
\* at most once, and when the backend fails one with an error other than
\* not-found they return that very error: never nil, never not-found,
\* never another backend error.
C16_BackendFailure ==
  last.op \in {"Get", "Has", "GetSize", "Put", "Delete"} =>
    LET failed == /\ last.fault.stage # "none"
                  /\ ~(last.op = "Get" /\ last.fault.stage = "read" /\ ~Stored(last.key))
    IN  /\ \A i, j \in 1..Len(last.calls) : last.calls[i] = last.calls[j] => i = j
        /\ failed => (last.err \in BackendErrs /\ last.err = last.fault.err)
        /\ last.err \in BackendErrs => (failed /\ last.err = last.fault.err)
        /\ (failed /\ last.op = "Has") => ~(~last.exists /\ last.err = Nil)

\* The backend refused the Delete of a stored object, and Delete returned
\* that error after its one call.
C16_Witness ==
  /\ last.op = "Delete" /\ last.err = "backend: permission denied"
  /\ last.calls = <<"DeleteObject">> /\ Stored(last.key)

\* The bucket after the call a pending operation stands for is made on the
\* datastore itself, the backend not failing it.
Applied(st, key, op) ==
  IF op.delete THEN Delete(st, key, NoFault).store ELSE Put(st, key, op.value, NoFault).store

\* C17, at the return of a Commit in which nothing failed: the bucket holds
\* for each key of the batch what the last call recorded for it asks for.
C17_Outcome ==
  (last.op = "Commit" /\ last.err = Nil) =>
    /\ DOMAIN batch.ops = DOMAIN batch.recorded
    /\ \A key \in DOMAIN batch.recorded : Applied(store, key, batch.recorded[key]) = store

\* C17, step by step.  A call recorded over an earlier one for its key
\* stands for both: made after the earlier one on the datastore, it leaves
\* the bucket it leaves alone.  Whichever entry Commit's loop visits next,
\* the step that does not fail leaves the bucket that the entry's call made
\* on the datastore would leave: it touches no key outside the batch, undoes
\* no entry done before, and with any entry still to come it leaves the same
\* bucket in either order.
C17_Iteration ==
  /\ (last'.op \in {"BatchPut", "BatchDelete"} /\ last'.key \in DOMAIN batch.recorded) =>
       LET key == last'.key IN
       Applied(Applied(store, key, batch.recorded[key]), key, batch'.recorded[key])
         = Applied(store, key, batch'.recorded[key])
  /\ (commit.pc = "running" /\ commit' # commit /\ last'.err = Nil) =>
       /\ \E key \in commit.todo :
            /\ store' = Applied(store, key, batch.recorded[key])
            /\ \A other \in commit.todo \ {key} :
                 Applied(store', other, batch.recorded[other])
                   = Applied(Applied(store, other, batch.recorded[other]), key, batch.recorded[key])
       /\ \A key \in Keys \ DOMAIN batch.recorded : SameAt(store, store', key)
       /\ \A key \in commit.done : AppliedIn(store', key, batch.recorded[key])

\* C17: the bucket after a Commit in which no operation fails is the same
\* for every order in which the loop visits the batch's keys, and is the
\* bucket that the recorded Put and Delete calls, made one by one on the
\* datastore in the order they were recorded, would have left.
C17_OrderIndependent == []C17_Outcome /\ [][C17_Iteration]_vars

\* A Commit succeeded on a batch of three keys, Puts and a Delete, in which
\* a call had replaced a different one.
C17_Witness ==
  /\ last.op = "Commit" /\ last.err = Nil /\ batch.rewritten
  /\ DOMAIN batch.recorded = Keys
  /\ \E k1, k2 \in Keys : batch.recorded[k1].delete /\ ~batch.recorded[k2].delete
  /\ store # Empty

\* Has, Get and GetSize answer for key as for a key with no object.
ReadsMissing(key) ==
  /\ ~Has(store, key, NoFault).exists /\ Has(store, key, NoFault).err = Nil
  /\ Get(store, key, NoFault).err = ErrNotFound
  /\ GetSize(store, key, NoFault).err = ErrNotFound

\* The reads after a Delete: right after a Delete that removed an object,
\* and for every key deleted while an iterator is open and not put since.
MissingAfterDelete ==
  /\ (last.op = "Delete" /\ last.err = Nil /\ storjKey(last.key) \in DOMAIN last.pre) =>
       ReadsMissing(last.key)
  /\ \A key \in query.removed : ReadsMissing(key)

\* C18 as stated: after a successful Delete of a key that held an object
\* and until the next Put of it, Has, Get and GetSize answer as for a
\* missing key, and no iterator returns an entry for the key.
C18_NoEntryAfterDelete ==
  /\ MissingAfterDelete
  /\ (last.op = "Next" /\ last.more) => last.entry.Key \notin query.removed

\* C18, amended: the same for the reads; and an entry for a key with no
\* object is returned only for a key that was listed before its Delete, and
\* only by a query for keys only, while a listing holds stored keys alone:
\* no query made after the Delete returns an entry for the key.
C18_NoEntryFromLaterQuery ==
  /\ MissingAfterDelete
  /\ (last.op = "Next" /\ last.more /\ ~Stored(last.entry.Key)) =>
       (last.entry.Key \in query.removed /\ query.q.KeysOnly)
  /\ (last.op = "Query" /\ last.err = Nil) =>
       \A item \in query.items : item.Key \in DOMAIN store

\* A query for keys only returned an entry for a key deleted after the
\* listing, which Has, Get and GetSize report as missing.
C18_Witness ==
  /\ last.op = "Next" /\ last.more /\ query.q.KeysOnly
  /\ last.entry.Key \in query.removed /\ ReadsMissing(last.entry.Key)

\* C19: no two canonical keys have the same storage key, and a Put or a
\* Delete of K, whether it succeeds or the backend fails it, leaves what
\* Get, Has and GetSize return for every other key as it was.
C19_OtherKeysUntouched ==
  /\ Cardinality({storjKey(K) : K \in CanonicalKeys}) = Cardinality(CanonicalKeys)
  /\ last.op \in {"Put", "Delete"} =>
       \A other \in Keys \ {last.key} :
         /\ Get(store, other, NoFault) = Get(last.pre, other, NoFault)
         /\ Has(store, other, NoFault) = Has(last.pre, other, NoFault)
         /\ GetSize(store, other, NoFault) = GetSize(last.pre, other, NoFault)

\* A Put replaced the object of "/a" while "/a/b" and "/b" held objects,
\* one of them with another value than the one put.
C19_Witness ==
  /\ last.op = "Put" /\ last.err = Nil /\ last.key = <<Sep, "a">>
  /\ store # last.pre /\ DOMAIN last.pre = StorKeys
  /\ \E other \in Keys : store[storjKey(other)] # last.arg

====
